---- MODULE Spec2Model ----
(***************************************************************************)
(* kubewatch: one informer-driven watch loop per command-line resource,    *)
(* every add/delete notification rendered to JSON, printed on stdout and   *)
(* written to the Splunk HTTP Event Collector.                             *)
(*                                                                         *)
(* The repository holds two programs: src/kubewatch.go prints to the       *)
(* console only, src/unnamed/part_001 also writes to the collector and can *)
(* flatten.  The variable splunk says which of the two is running.         *)
(*                                                                         *)
(* cache.NewInformer (client-go) is not part of the repository: its        *)
(* reflector, delta queue and store are modelled at the call site in       *)
(* watchResource, as a plain FIFO of deltas (client-go groups the deltas   *)
(* of one key; the order in which the handlers are invoked is the order    *)
(* the claims speak of).                                                   *)
(*                                                                         *)
(* Spec and LiveSpec follow the watch loops with the documents kept        *)
(* abstract.  FlatSpec follows the flatten branch of printEvent on one     *)
(* decoded document at a time: flatten as the code computes it, character  *)
(* by character for the keys, then the two writes of the flat record.      *)
(***************************************************************************)
EXTENDS Integers, Sequences, FiniteSets, TLC

(* ---------------------------------------------------------------- bounds *)

\* Cluster transitions (add, modify, delete) in one run.
MaxTransitions == 2

\* Watch-stream errors, each followed by a re-list, in one run.
MaxRelists == 1

(* ------------------------------------------------------ the registry *)

\* var resources = []string{...}: the names kingpin's Enums accepts.
resources ==
    { "configMaps", "endpoints", "events", "limitranges",
      "persistentvolumeclaims", "persistentvolumes", "pods", "podtemplates",
      "replicationcontrollers", "resourcequotas", "secrets", "serviceaccounts",
      "services", "deployments", "horizontalpodautoscalers", "ingresses", "jobs" }

V1Resources ==
    { "configMaps", "endpoints", "events", "limitranges",
      "persistentvolumeclaims", "persistentvolumes", "pods", "podtemplates",
      "replicationcontrollers", "resourcequotas", "secrets", "serviceaccounts",
      "services" }

\* A plausible slip: a name kingpin accepts has no entry in the registry.
V1beta1ResourcesWithoutJobs ==
    { "deployments", "horizontalpodautoscalers", "ingresses" }

V1beta1Resources ==
    { "deployments", "horizontalpodautoscalers", "ingresses", "jobs" }

\* resourceObject[resource].apiVersion; a missing key reads as the zero verObj.
resourceObject(resource) ==
    IF resource \in V1Resources THEN "v1"
    ELSE IF resource \in V1beta1Resources THEN "v1beta1"
    ELSE ""

\* resourceObject[resource].runtimeObject, the prototype the informer decodes
\* into: a pointer to the zero value of the resource's type (named here by the
\* API version and the resource), nil for a missing key.
runtimeObject(resource) ==
    IF resource \in V1Resources \cup V1beta1Resources THEN "&" \o resourceObject(resource) \o "." \o resource
    ELSE "nil"

\* The switch of watchResource: no case matches leaves client nil.
Client(resource) ==
    CASE resourceObject(resource) = "v1"      -> "core"
      [] resourceObject(resource) = "v1beta1" -> "extensions"
      [] OTHER                                -> "nil"

(* ------------------------------------------------------------ inputs *)

\* Command lines: one resource, two resources, the same resource twice, and
\* a name ("nodes") that is not in the registry, listed last or first.
ArgLists ==
    { <<"pods">>, <<"pods", "jobs">>, <<"pods", "pods">>,
      <<"pods", "nodes">>, <<"nodes", "pods">> }

\* The programs and flags each command line is run with.
Modes == [splunk : BOOLEAN, flatten : BOOLEAN]

\* kubewatch.go has no flatten flag; the command line that names a resource
\* twice is run with kubewatch.go, which keeps its two loops' state space small.
Configs ==
    { c \in [args : ArgLists, mode : Modes] :
        /\ c.mode.flatten => c.mode.splunk
        /\ c.args = <<"pods", "pods">> => ~c.mode.splunk }

LoopIds == {1, 2}

\* The resources whose objects the model follows in the cluster.
ClusterRes == {"pods", "jobs"}

ObjNames == {"a"}

\* Pod "a" exists before the process starts (resourceVersion 0); there is no job yet.
InitialCluster ==
    [r \in ClusterRes |-> IF r = "pods" THEN {[name |-> "a", rv |-> 0]} ELSE {}]

\* json.Marshal of the object, json.Unmarshal into a map, json.Marshal of the
\* flat record: where, if anywhere, the encoding of an event fails.
EncOutcomes(flat) ==
    IF flat THEN {"ok", "marshalErr", "unmarshalErr", "remarshalErr"}
    ELSE {"ok", "marshalErr"}

\* splunkClient.WriteEvent: returns nil, returns an error, or never returns.
WriteOutcomes == {"ok", "fail", "hang"}

\* The value of jsn when an encoding step has failed (printEvent returns).
EncodingError == [form |-> "error", doc |-> "none"]

NoNotification == [n |-> 0, body |-> EncodingError]

VARIABLES
    args,        \* *argResources, as given on the command line
    flgFlatten,  \* *flgFlatten
    splunk,      \* TRUE: part_001 (console + collector); FALSE: kubewatch.go
    pcMain,      \* main: "parse", "watch", "select" (blocked forever), "exit"
    nextArg,     \* main's position in the range over *argResources
    exited,      \* the process has terminated
    started,     \* started[l]: go controller.Run was issued for argument l
    rpc,         \* reflector of loop l: "list" or "watch"
    store,       \* the informer's store (known objects) of loop l
    fifo,        \* the informer's delta queue of loop l
    arrived,     \* deltas queued so far on loop l
    ppc,         \* loop l inside printEvent: "idle", "print", "send", "stalled", "fatal"
    cur,         \* the notification loop l is delivering
    cluster,     \* cluster[r]: the objects of resource r
    tid,         \* cluster transitions so far (the cluster's resourceVersion)
    relists,     \* watch errors so far
    handed,      \* handed[l]: the notifications handed to printEvent, in order
    out,         \* out[l]: the sink writes of loop l, in order: console lines and collector writes
    fpc,         \* where the flatten branch of printEvent stands ("off": not followed)
    root,        \* flatten's root prefix p
    dat,         \* the decoded document handed to flatten
    record,      \* r, the flat record, with what flatten logged
    flatOut      \* the sink writes of the flat record

vars == << args, flgFlatten, splunk, pcMain, nextArg, exited, started, rpc,
           store, fifo, arrived, ppc, cur, cluster, tid, relists,
           handed, out, fpc, root, dat, record, flatOut >>

kubeVars == << args, flgFlatten, splunk, pcMain, nextArg, exited, started, rpc,
               store, fifo, arrived, ppc, cur, cluster, tid, relists,
               handed, out >>
flatVars == << fpc, root, dat, record, flatOut >>

mainVars == << args, flgFlatten, splunk, pcMain, nextArg >>
envVars == << cluster, tid, relists >>

(* ----------------------------------------------------------- helpers *)

Names(objs) == { o.name : o \in objs }

Lookup(objs, name) == CHOOSE o \in objs : o.name = name

InFifo(q, name) == \E i \in 1..Len(q) : q[i].obj.name = name

\* The last delta queued for name is a Deleted one (DeltaFIFO drops a second one).
LastIsDeleted(q, name) ==
    LET idx == { i \in 1..Len(q) : q[i].obj.name = name }
    IN  idx # {} /\ q[CHOOSE i \in idx : \A j \in idx : j <= i].type = "Deleted"

Watching(l, r) ==
    /\ l \in 1..Len(args)
    /\ args[l] = r
    /\ started[l]
    /\ rpc[l] = "watch"

Orders(S) ==
    { s \in [1..Cardinality(S) -> S] : \A i, j \in 1..Cardinality(S) : i # j => s[i] # s[j] }

RemoveAt(q, i) == [j \in 1..(Len(q) - 1) |-> IF j < i THEN q[j] ELSE q[j + 1]]

(* ----------------------------------------------------------- documents *)

\* The longest sequence (JSON array) in a document.
MaxLen == 2

\* A reflect.Value, by kind.  json.Unmarshal into interface{} yields bool,
\* float64, string, nil, map[string]interface{} and []interface{}; a map lists
\* its entries in the order v.MapKeys() returns them, which Go leaves open.
Bool(b) == [kind |-> "Bool", b |-> b]
Float64(f) == [kind |-> "Float64", f |-> f]
Str(s) == [kind |-> "String", s |-> s]
Nil == [kind |-> "Invalid"]
IntValue(i) == [kind |-> "Int", i |-> i]
Entry(k, v) == [k |-> k, v |-> v]
Map(entries) == [kind |-> "Map", entries |-> entries]
Slice(elems) == [kind |-> "Slice", elems |-> elems]

SeqsUpTo(S, n) == UNION { [1..k -> S] : k \in 0..n }

\* The entry lists of the maps with at most two entries, keys in K (no key
\* twice) and values in V, in either iteration order.
Entries(K, V) ==
    {<<>>}
    \cup { <<Entry(k, v)>> : k \in K, v \in V }
    \cup { <<Entry(e[1], e[3]), Entry(e[2], e[4])>> :
              e \in { x \in K \X K \X V \X V : x[1] # x[2] } }

\* Scalars, null and a value of a kind flatten has no case for.
Leaves == { Bool(TRUE), Bool(FALSE), Float64(1), Str("x"), Nil, IntValue(7) }

ElemLeaves == { Bool(TRUE), Float64(1), Nil }

\* Field names of the inner maps; the last one is a key that is not a string.
InnerKeys == { Str("b"), Str(""), IntValue(1) }

InnerSlices == { Slice(e) : e \in SeqsUpTo(ElemLeaves, MaxLen) }

InnerMaps == { Map(e) : e \in Entries(InnerKeys, ElemLeaves) }

Inner == Leaves \cup InnerSlices \cup InnerMaps

\* The values of the two-entry maps.
PairValues ==
    Leaves
    \cup { Slice(e) : e \in SeqsUpTo({Bool(TRUE), Nil}, MaxLen) }
    \cup { Map(<<Entry(k, Bool(TRUE))>>) : k \in InnerKeys }
    \cup { Map(<<Entry(Str("b"), Nil)>>) }

\* Field names of the outer maps: with '_', a digit and '#'.
OuterKeys == { Str("a"), Str("a_b"), Str("a_0"), Str("a_#") }

OuterMaps ==
    { Map(<<Entry(k, v)>>) : k \in OuterKeys, v \in Inner }
    \cup { Map(e) : e \in Entries(OuterKeys, PairValues) }

\* Sequences of scalars, nulls, sequences and mappings.
OuterSlices ==
    { Slice(e) : e \in SeqsUpTo({ Bool(TRUE), Nil, Slice(<<Float64(1)>>),
                                  Map(<<Entry(Str("b"), Bool(TRUE))>>) }, MaxLen) }

\* {"a": {"b": true, "c": [1,2]}}, its inner map iterated in either order.
ExampleDocs ==
    { Map(<<Entry(Str("a"), Map(e))>>) :
        e \in { << Entry(Str("b"), Bool(TRUE)),
                   Entry(Str("c"), Slice(<<Float64(1), Float64(2)>>)) >>,
                << Entry(Str("c"), Slice(<<Float64(1), Float64(2)>>)),
                   Entry(Str("b"), Bool(TRUE)) >> } }

Docs == OuterMaps \cup OuterSlices \cup Leaves \cup ExampleDocs

\* The root prefix: the program's, the one of the example, and none.
Prefixes == { "kubewatch", "root", "" }

\* What json.Unmarshal can produce: string keys, no kind but the six above.
RECURSIVE Decoded(_)
Decoded(v) ==
    CASE v.kind = "Map" ->
           \A i \in 1..Len(v.entries) :
              v.entries[i].k.kind = "String" /\ Decoded(v.entries[i].v)
      [] v.kind = "Slice" -> \A i \in 1..Len(v.elems) : Decoded(v.elems[i])
      [] OTHER -> v.kind # "Int"

\* printEvent calls flatten(r, "kubewatch", reflect.ValueOf(dat)), dat a
\* strIfce filled by json.Unmarshal.
FromPrintEvent(p, v) == p = "kubewatch" /\ v.kind = "Map" /\ Decoded(v)

(* ------------------------------------------------------------- flatten *)

\* r := strIfce{}, with what has been logged, the number of assignments made
\* and whether a slice expression has faulted.
EmptyRecord == [m |-> <<>>, sets |-> 0, log |-> <<>>, panic |-> FALSE]

\* A value held in an interface{}: its dynamic type and its text.
GoString(s) == [type |-> "string", val |-> s]
GoBool(b) == [type |-> "bool", val |-> IF b THEN "true" ELSE "false"]

\* r[key] = val
SetKey(r, key, val) ==
    [r EXCEPT !.m = [k \in (DOMAIN r.m) \cup {key} |->
                        IF k = key THEN val ELSE r.m[k]],
              !.sets = @ + 1]

\* r[p[:len(p)-1]] = val: the slice expression faults on an empty p.
SetTrimmed(r, p, val) ==
    IF Len(p) = 0 THEN [r EXCEPT !.panic = TRUE]
    ELSE SetKey(r, SubSeq(p, 1, Len(p) - 1), val)

\* log.Error, log.Errorf
LogError(r, msg) == [r EXCEPT !.log = Append(@, msg)]

\* fmt.Sprintf("%f", v.Float()) of a whole number; fmt.Sprintf("%d", n)
SprintfF(f) == ToString(f) \o ".000000"
SprintfD(n) == ToString(n)

\* k.String(): the string itself, or for another kind "<T Value>".
KeyString(k) == IF k.kind = "String" THEN k.s ELSE "<int Value>"

\* A plausible slip: the separator is appended to an empty prefix too.
AppendSeparatorAlways(p) == p \o "_"

\* if p != "" { p = p + "_" }
AppendSeparator(p) == IF p # "" THEN p \o "_" ELSE p

\* A plausible slip: the native boolean is stored.
flattenBoolNative(v, p, r) == SetTrimmed(r, p, GoBool(v.b))

flattenBool(v, p, r) ==
    IF v.b THEN SetTrimmed(r, p, GoString("true"))
    ELSE SetTrimmed(r, p, GoString("false"))

flattenFloat64(v, p, r) == SetTrimmed(r, p, GoString(SprintfF(v.f)))

flattenString(v, p, r) == SetTrimmed(r, p, GoString(v.s))

\* A plausible slip: a null is rendered instead of left out.
NotValidEmitsNull(v, p, r) == SetTrimmed(r, p, GoString("null"))

\* if !v.IsValid() { return }
NotValid(v, p, r) == r

\* default: log.Error("Unknown: " + p)
Unknown(v, p, r) == LogError(r, "Unknown: " \o p)

\* if k.Kind() != reflect.String { log.Errorf(...) }: logged, and the loop body goes on.
CheckKey(k, p, r) ==
    IF k.kind # "String"
    THEN LogError(r, p \o ": map key is not string: %!s(int=" \o ToString(k.i) \o ")")
    ELSE r

RECURSIVE flatten(_, _, _)
RECURSIVE flattenMapFrom(_, _, _, _)
RECURSIVE flattenSliceFrom(_, _, _, _)

\* for _, k := range v.MapKeys() { ...; flatten(r, p+k.String(), v.MapIndex(k)) }
flattenMapFrom(v, p, r, i) ==
    IF i > Len(v.entries) \/ r.panic THEN r
    ELSE LET k == v.entries[i].k
         IN  flattenMapFrom(v, p,
                 flatten(CheckKey(k, p, r), p \o KeyString(k), v.entries[i].v), i + 1)

flattenMap(v, p, r) == flattenMapFrom(v, p, r, 1)

\* for i := 0; i < v.Len(); i++ { flatten(r, fmt.Sprintf("%s%d", p, i), v.Index(i)) }
flattenSliceFrom(v, p, r, i) ==
    IF i >= Len(v.elems) \/ r.panic THEN r
    ELSE flattenSliceFrom(v, p,
             flatten(r, p \o SprintfD(i), v.elems[i + 1]), i + 1)

\* r[p+"#"] = fmt.Sprintf("%d", v.Len()), then the elements.
flattenSlice(v, p, r) ==
    flattenSliceFrom(v, p, SetKey(r, p \o "#", GoString(SprintfD(Len(v.elems)))), 0)

\* flatten(r, p, v); v.Elem() of an interface holding nil is not valid.
flatten(r, p0, v) ==
    IF r.panic THEN r
    ELSE LET p == AppendSeparator(p0)
         IN  CASE v.kind = "Invalid" -> NotValid(v, p, r)
               [] v.kind = "Bool"    -> flattenBool(v, p, r)
               [] v.kind = "Float64" -> flattenFloat64(v, p, r)
               [] v.kind = "Map"     -> flattenMap(v, p, r)
               [] v.kind = "Slice"   -> flattenSlice(v, p, r)
               [] v.kind = "String"  -> flattenString(v, p, r)
               [] OTHER              -> Unknown(v, p, r)

(* ------------------------------------------------------------- startup *)

\* The process before main has parsed its command line.
Startup ==
    /\ pcMain = "parse"
    /\ nextArg = 1
    /\ exited = FALSE
    /\ started = [l \in LoopIds |-> FALSE]
    /\ rpc = [l \in LoopIds |-> "list"]
    /\ store = [l \in LoopIds |-> {}]
    /\ fifo = [l \in LoopIds |-> <<>>]
    /\ arrived = [l \in LoopIds |-> 0]
    /\ ppc = [l \in LoopIds |-> "idle"]
    /\ cur = [l \in LoopIds |-> NoNotification]
    /\ cluster = InitialCluster
    /\ tid = 0
    /\ relists = 0
    /\ handed = [l \in LoopIds |-> <<>>]
    /\ out = [l \in LoopIds |-> <<>>]

\* The flatten branch is followed document by document in FlatSpec only.
FlatOff ==
    /\ fpc = "off"
    /\ root = ""
    /\ dat = Nil
    /\ record = EmptyRecord
    /\ flatOut = <<>>

Init ==
    /\ \E c \in Configs :
         /\ args = c.args
         /\ splunk = c.mode.splunk
         /\ flgFlatten = c.mode.flatten
    /\ FlatOff
    /\ Startup

\* A plausible slip: only the first name is validated.
argResourcesFirstOnly(a) == a[1] \in resources

\* app.Arg("resources").Required().Enums(resources...): every name is one of resources.
argResources(a) == \A i \in 1..Len(a) : a[i] \in resources

\* kingpin.MustParse(app.Parse(os.Args[1:])): a rejected argument ends the process.
Parse ==
    /\ ~exited
    /\ pcMain = "parse"
    /\ IF argResources(args)
       THEN /\ pcMain' = "watch"
            /\ exited' = FALSE
       ELSE /\ pcMain' = "exit"
            /\ exited' = TRUE
    /\ UNCHANGED << flatVars, args, flgFlatten, splunk, nextArg, started, rpc, store, fifo,
                    arrived, ppc, cur, cluster, tid, relists, handed, out >>

\* One iteration of main's range over *argResources: watchResource builds the
\* informer and issues go controller.Run; after the last one main blocks.
watchResource ==
    /\ ~exited
    /\ pcMain = "watch"
    /\ nextArg <= Len(args)
    /\ started' = [started EXCEPT ![nextArg] = TRUE]
    /\ nextArg' = nextArg + 1
    /\ pcMain' = IF nextArg = Len(args) THEN "select" ELSE "watch"
    /\ UNCHANGED << flatVars, args, flgFlatten, splunk, exited, rpc, store, fifo, arrived,
                    ppc, cur, cluster, tid, relists, handed, out >>

(* ------------------------------------------------- reflector and queue *)

\* listWatch.ListFunc: the list is taken from the namespace "none", which holds nothing.
ListFunc(resource) == {}

Delta(type, obj, dfsu, cause, t, n) ==
    [type |-> type, obj |-> obj, dfsu |-> dfsu, cause |-> cause, tid |-> t, n |-> n]

\* The reflector lists, replaces the queue's view by the list (a Sync delta per
\* listed object, a Deleted delta with the last known state for every stored
\* object that the list lacks), then watches from the list's resourceVersion.
\* A nil client (no case of the switch matched) faults in the goroutine.
List(l) ==
    /\ ~exited
    /\ l \in 1..Len(args)
    /\ started[l]
    /\ rpc[l] = "list"
    /\ IF Client(args[l]) = "nil"
       THEN /\ exited' = TRUE
            /\ UNCHANGED << rpc, fifo, arrived >>
       ELSE LET items == ListFunc(args[l])
                stale == { o \in store[l] : /\ o.name \notin Names(items)
                                            /\ ~LastIsDeleted(fifo[l], o.name) }
            IN  \E si \in Orders(items), sd \in Orders(stale) :
                  LET ni == Cardinality(items)
                      nd == Cardinality(stale)
                      syncs == [i \in 1..ni |->
                                  Delta("Sync", si[i], FALSE, "list", 0, arrived[l] + i)]
                      dels == [i \in 1..nd |->
                                  Delta("Deleted", sd[i], TRUE, "list", 0, arrived[l] + ni + i)]
                  IN  /\ fifo' = [fifo EXCEPT ![l] = @ \o syncs \o dels]
                      /\ arrived' = [arrived EXCEPT ![l] = @ + ni + nd]
                      /\ rpc' = [rpc EXCEPT ![l] = "watch"]
                      /\ exited' = FALSE
    /\ UNCHANGED << flatVars, mainVars, started, store, ppc, cur, envVars, handed, out >>

\* A transient error ends the watch; the reflector lists again before it watches.
WatchError(l) ==
    /\ ~exited
    /\ relists < MaxRelists
    /\ l \in 1..Len(args)
    /\ started[l]
    /\ rpc[l] = "watch"
    /\ rpc' = [rpc EXCEPT ![l] = "list"]
    /\ relists' = relists + 1
    /\ UNCHANGED << flatVars, mainVars, exited, started, store, fifo, arrived, ppc, cur,
                    cluster, tid, handed, out >>

\* Whether the watch event reaches the queue of loop l: the queue drops the
\* deletion of an object that is neither stored nor queued.
Receives(l, r, type, obj) ==
    /\ Watching(l, r)
    /\ (type = "Deleted" =>
           obj.name \in Names(store[l]) \/ InFifo(fifo[l], obj.name))

Broadcast(r, type, obj, cause, t) ==
    /\ fifo' = [l \in LoopIds |->
                  IF Receives(l, r, type, obj)
                  THEN Append(fifo[l], Delta(type, obj, FALSE, cause, t, arrived[l] + 1))
                  ELSE fifo[l]]
    /\ arrived' = [l \in LoopIds |->
                  IF Receives(l, r, type, obj) THEN arrived[l] + 1 ELSE arrived[l]]

(* --------------------------------------------------------- the cluster *)

\* The cluster is followed while the process runs and some loop on the
\* resource has been started; what happened before is the initial cluster.
Observed(r) ==
    /\ ~exited
    /\ \E l \in 1..Len(args) : args[l] = r /\ started[l]

ClusterAdd(r, name) ==
    /\ Observed(r)
    /\ tid < MaxTransitions
    /\ name \notin Names(cluster[r])
    /\ LET obj == [name |-> name, rv |-> tid + 1]
       IN  /\ cluster' = [cluster EXCEPT ![r] = @ \cup {obj}]
           /\ Broadcast(r, "Added", obj, "add", tid + 1)
    /\ tid' = tid + 1
    /\ UNCHANGED << flatVars, mainVars, exited, started, rpc, store, ppc, cur, relists,
                    handed, out >>

ClusterModify(r, name) ==
    /\ Observed(r)
    /\ tid < MaxTransitions
    /\ name \in Names(cluster[r])
    /\ LET old == Lookup(cluster[r], name)
           obj == [name |-> name, rv |-> tid + 1]
       IN  /\ cluster' = [cluster EXCEPT ![r] = (@ \ {old}) \cup {obj}]
           /\ Broadcast(r, "Updated", obj, "modify", tid + 1)
    /\ tid' = tid + 1
    /\ UNCHANGED << flatVars, mainVars, exited, started, rpc, store, ppc, cur, relists,
                    handed, out >>

ClusterDelete(r, name) ==
    /\ Observed(r)
    /\ tid < MaxTransitions
    /\ name \in Names(cluster[r])
    /\ LET old == Lookup(cluster[r], name)
       IN  /\ cluster' = [cluster EXCEPT ![r] = @ \ {old}]
           /\ Broadcast(r, "Deleted", old, "delete", tid + 1)
    /\ tid' = tid + 1
    /\ UNCHANGED << flatVars, mainVars, exited, started, rpc, store, ppc, cur, relists,
                    handed, out >>

(* ---------------------------------------------------------- printEvent *)

\* What the handler receives: the object, or for a deletion learnt from a
\* re-list the DeletedFinalStateUnknown wrapper around its last known state.
Payload(d) ==
    IF d.dfsu THEN [Key |-> d.obj.name, Obj |-> d.obj] ELSE d.obj

\* json.Marshal(obj)
Marshal(p) == [form |-> "nested", doc |-> p]

\* json.Unmarshal into dat, flatten(r, "kubewatch", dat), json.Marshal(r)
Flattened(p) == [form |-> "flat", doc |-> p]

\* A plausible slip: the errors of the flatten branch are logged without returning.
EncodeNoReturn(p, enc, flat) ==
    IF enc = "marshalErr" THEN EncodingError
    ELSE IF ~flat THEN Marshal(p)
    ELSE Flattened(p)

\* The encoding steps of printEvent, up to the first write: jsn, or the
\* early return of a failed step.
Encode(p, enc, flat) ==
    IF enc = "marshalErr" THEN EncodingError
    ELSE IF ~flat THEN Marshal(p)
    ELSE IF enc = "unmarshalErr" THEN EncodingError
    ELSE IF enc = "remarshalErr" THEN EncodingError
    ELSE Flattened(p)

\* A plausible slip: the queue is served newest first.
PopNewest(q) == Len(q)

\* The controller's processLoop pops the oldest delta.
Pop(q) == 1

\* A plausible slip: UpdateFunc is registered as well.
NotifiesWithUpdateFunc(d, st) == TRUE

\* ResourceEventHandlerFuncs{AddFunc: printEvent, DeleteFunc: printEvent}: a
\* deletion invokes DeleteFunc; any other delta invokes AddFunc when the object
\* is not in the store and the absent UpdateFunc when it is.
Notifies(d, st) == d.type = "Deleted" \/ d.obj.name \notin Names(st)

\* The controller pops a delta, brings the store up to date and invokes the
\* handler, which runs printEvent up to its first write.
Process(l) ==
    /\ ~exited
    /\ l \in 1..Len(args)
    /\ started[l]
    /\ ppc[l] = "idle"
    /\ fifo[l] # <<>>
    /\ LET i == Pop(fifo[l])
           d == fifo[l][i]
           others == { o \in store[l] : o.name # d.obj.name }
       IN  /\ fifo' = [fifo EXCEPT ![l] = RemoveAt(@, i)]
           /\ store' = [store EXCEPT ![l] =
                           IF d.type = "Deleted" THEN others ELSE others \cup {d.obj}]
           /\ IF Notifies(d, store[l])
              THEN \E enc \in EncOutcomes(flgFlatten) :
                     LET jsn == Encode(Payload(d), enc, flgFlatten)
                     IN  /\ handed' = [handed EXCEPT ![l] = Append(@,
                                          [n |-> d.n, type |-> d.type, obj |-> d.obj,
                                           dfsu |-> d.dfsu, cause |-> d.cause,
                                           tid |-> d.tid, enc |-> enc])]
                         /\ IF jsn = EncodingError
                            THEN UNCHANGED << ppc, cur >>
                            ELSE /\ ppc' = [ppc EXCEPT ![l] = "print"]
                                 /\ cur' = [cur EXCEPT ![l] = [n |-> d.n, body |-> jsn]]
              ELSE UNCHANGED << handed, ppc, cur >>
    /\ UNCHANGED << flatVars, mainVars, exited, started, rpc, arrived, envVars, out >>

\* A plausible slip: the collector is sent the nested document whatever the flag.
SinkWriteRemoteNested(sink, l, res) ==
    [sink |-> sink, n |-> cur[l].n,
     body |-> IF sink = "remote" THEN [form |-> "nested", doc |-> cur[l].body.doc]
              ELSE cur[l].body,
     res |-> res, at |-> IF res = "hang" THEN tid ELSE 0]

\* A sink write as recorded: the sink, the notification and the bytes written,
\* the collector's answer and, for a call that never returns, the cluster's
\* resourceVersion at the call.
SinkWrite(sink, l, res) ==
    [sink |-> sink, n |-> cur[l].n, body |-> cur[l].body, res |-> res,
     at |-> IF res = "hang" THEN tid ELSE 0]

\* A plausible slip: the console-only program goes on to a collector write.
AfterConsoleAlwaysSend(s) == "send"

\* After the console line: part_001 goes on to the collector, kubewatch.go returns.
AfterConsole(s) == IF s THEN "send" ELSE "idle"

\* A plausible slip: the line is written twice.
ConsoleLineTwice(l) == << SinkWrite("console", l, "ok"), SinkWrite("console", l, "ok") >>

\* fmt.Printf("%s\n", jsn)
ConsoleLine(l) == << SinkWrite("console", l, "ok") >>

ConsoleWrite(l) ==
    /\ ~exited
    /\ ppc[l] = "print"
    /\ out' = [out EXCEPT ![l] = @ \o ConsoleLine(l)]
    /\ ppc' = [ppc EXCEPT ![l] = AfterConsole(splunk)]
    /\ cur' = [cur EXCEPT ![l] = IF AfterConsole(splunk) = "idle" THEN NoNotification ELSE @]
    /\ UNCHANGED << flatVars, mainVars, exited, started, rpc, store, fifo, arrived,
                    envVars, handed >>

\* A plausible slip: one collector write at a time, process-wide.
WriteEventAllowedSerialized(l) == \A m \in LoopIds : ppc[m] # "stalled"

\* The collector client is shared and takes calls from every loop at once.
WriteEventAllowed(l) == TRUE

\* A plausible slip: the write is handed off and the handler returns at once.
AfterWriteDetached(r) == "idle"

\* Where printEvent stands after splunkClient.WriteEvent: returned nil (the
\* handler returns), returned an error (log.Fatal is next), or not returned.
AfterWrite(r) ==
    CASE r = "ok"   -> "idle"
      [] r = "fail" -> "fatal"
      [] r = "hang" -> "stalled"

\* splunkClient.WriteEvent(event) with jsn as the event; the outcome is the
\* collector's choice.  A call that returns is one step.
WriteEvent(l) ==
    /\ ~exited
    /\ ppc[l] = "send"
    /\ WriteEventAllowed(l)
    /\ \E r \in WriteOutcomes :
         /\ out' = [out EXCEPT ![l] = Append(@, SinkWrite("remote", l, r))]
         /\ ppc' = [ppc EXCEPT ![l] = AfterWrite(r)]
         /\ cur' = [cur EXCEPT ![l] = IF r = "ok" THEN NoNotification ELSE @]
    /\ UNCHANGED << flatVars, mainVars, exited, started, rpc, store, fifo, arrived,
                    envVars, handed >>

\* A plausible slip: the error is logged and the loop carries on.
FatalLogsOnly(l) ==
    /\ ppc' = [ppc EXCEPT ![l] = "idle"]
    /\ cur' = [cur EXCEPT ![l] = NoNotification]
    /\ UNCHANGED exited

\* log.Fatal(err): the entry is logged and the process exits.
FatalEffect(l) ==
    /\ exited' = TRUE
    /\ UNCHANGED << ppc, cur >>

Fatal(l) ==
    /\ ~exited
    /\ ppc[l] = "fatal"
    /\ FatalEffect(l)
    /\ UNCHANGED << flatVars, mainVars, started, rpc, store, fifo, arrived, envVars,
                    handed, out >>

(* ------------------------------------------------------- specification *)

LoopStep(l) ==
    \/ Process(l)
    \/ ConsoleWrite(l)
    \/ WriteEvent(l)
    \/ Fatal(l)

Next ==
    \/ Parse
    \/ watchResource
    \/ \E l \in LoopIds : List(l)
    \/ \E l \in LoopIds : WatchError(l)
    \/ \E l \in LoopIds : LoopStep(l)
    \/ \E r \in ClusterRes, name \in ObjNames : ClusterAdd(r, name)
    \/ \E r \in ClusterRes, name \in ObjNames : ClusterModify(r, name)
    \/ \E r \in ClusterRes, name \in ObjNames : ClusterDelete(r, name)

Spec == Init /\ [][Next]_vars

\* The loops are scheduled fairly; nothing is assumed of the cluster, of the
\* watch stream or of main.  Two loops on two resources, with the collector,
\* without flattening.
LiveInit ==
    /\ Init
    /\ args = <<"pods", "jobs">>
    /\ splunk
    /\ ~flgFlatten

LiveSpec == LiveInit /\ [][Next]_vars /\ \A l \in LoopIds : WF_vars(LoopStep(l))

(* ------------------------------------------- the flatten branch, alone *)

\* printEvent with --flatten, after json.Unmarshal has filled dat: flatten,
\* json.Marshal(r), the console line, the collector write.  flatten is also
\* applied to the prefixes and values printEvent never passes; these runs end
\* when flatten returns.
FlatInit ==
    /\ args = <<"pods">>
    /\ splunk = TRUE
    /\ flgFlatten = TRUE
    /\ Startup
    /\ \E p \in Prefixes, v \in Docs :
         /\ root = p
         /\ dat = v
    /\ fpc = "flatten"
    /\ record = EmptyRecord
    /\ flatOut = <<>>

\* r := strIfce{}; flatten(r, "kubewatch", reflect.ValueOf(dat))
Flatten ==
    /\ fpc = "flatten"
    /\ record' = flatten(EmptyRecord, root, dat)
    /\ fpc' = IF record'.panic THEN "panic"
              ELSE IF FromPrintEvent(root, dat) THEN "marshal"
              ELSE "returned"
    /\ UNCHANGED << kubeVars, root, dat, flatOut >>

\* json.Marshal(r): a map of strings always encodes.
FlatJSON(r) == [form |-> "flat", doc |-> r.m]

MarshalFlat ==
    /\ fpc = "marshal"
    /\ fpc' = "print"
    /\ UNCHANGED << kubeVars, root, dat, record, flatOut >>

\* fmt.Printf("%s\n", jsn)
FlatConsoleWrite ==
    /\ fpc = "print"
    /\ flatOut' = Append(flatOut, [sink |-> "console", body |-> FlatJSON(record), res |-> "ok"])
    /\ fpc' = "send"
    /\ UNCHANGED << kubeVars, root, dat, record >>

\* splunkClient.WriteEvent(event), the event made of the same jsn.
FlatWriteEvent ==
    /\ fpc = "send"
    /\ \E res \in WriteOutcomes :
         /\ flatOut' = Append(flatOut, [sink |-> "remote", body |-> FlatJSON(record), res |-> res])
         /\ fpc' = AfterWrite(res)
    /\ UNCHANGED << kubeVars, root, dat, record >>

\* log.Fatal(err)
FlatFatal ==
    /\ fpc = "fatal"
    /\ ~exited
    /\ exited' = TRUE
    /\ UNCHANGED << args, flgFlatten, splunk, pcMain, nextArg, started, rpc,
                    store, fifo, arrived, ppc, cur, cluster, tid, relists,
                    handed, out, flatVars >>

FlatNext ==
    \/ Flatten
    \/ MarshalFlat
    \/ FlatConsoleWrite
    \/ FlatWriteEvent
    \/ FlatFatal

FlatSpec == FlatInit /\ [][FlatNext]_vars

(* -------------------------------------------------------------- claims *)

Last(q) == q[Len(q)]

Sink(l, sink) == SelectSeq(out[l], LAMBDA e : e.sink = sink)

\* The writes of loop l to a sink for the notification numbered n.
Writes(l, sink, n) == { i \in 1..Len(out[l]) : out[l][i].sink = sink /\ out[l][i].n = n }

\* The encoding of notification h fails: the marshal of the object or, in
\* flatten mode, the unmarshal into a map or the marshal of the flat record.
Fails(h) ==
    \/ h.enc = "marshalErr"
    \/ flgFlatten /\ h.enc \in {"unmarshalErr", "remarshalErr"}

\* The document a record of notification h must carry.
Rendering(h) ==
    [form |-> IF flgFlatten THEN "flat" ELSE "nested",
     doc  |-> IF h.dfsu THEN [Key |-> h.obj.name, Obj |-> h.obj] ELSE h.obj]

\* printEvent has got past the console write of the k-th notification of loop l.
PastConsole(l, k) == k < Len(handed[l]) \/ ppc[l] # "print"

\* C1: every notification handed to printEvent that encodes successfully
\* produces exactly one console line and at most one collector write; every
\* write belongs to one handed notification and carries that notification's
\* document and nothing else.
C1_OncePerNotification ==
    \A l \in LoopIds :
        /\ \A i \in 1..Len(out[l]) :
             \E k \in 1..Len(handed[l]) :
                /\ handed[l][k].n = out[l][i].n
                /\ out[l][i].body = Rendering(handed[l][k])
        /\ \A k \in 1..Len(handed[l]) :
             LET h == handed[l][k]
             IN  /\ Cardinality(Writes(l, "console", h.n)) <= 1
                 /\ Cardinality(Writes(l, "remote", h.n)) <= 1
                 /\ (~Fails(h) /\ PastConsole(l, k)) =>
                        Cardinality(Writes(l, "console", h.n)) = 1
        /\ \A k1, k2 \in 1..Len(handed[l]) :
             k1 # k2 => handed[l][k1].n # handed[l][k2].n

C1_Witness ==
    \E l \in LoopIds :
        /\ Len(Sink(l, "console")) >= 2
        /\ Len(Sink(l, "remote")) >= 2
        /\ \E m \in LoopIds \ {l} : out[m] # <<>>

\* C2 as stated: once a collector write has failed, no loop delivers anything.
C2_NoDeliveryAfterFailedWrite ==
    [][(\E l \in LoopIds : ppc[l] = "fatal") => out' = out]_vars

\* C2 as amended: a failed collector write leads to log.Fatal; the failing loop
\* delivers nothing more and its only step ends the process; once the process
\* has ended no loop delivers anything.
C2_FailedWriteTerminates ==
    [][/\ \A l \in LoopIds :
            /\ (out'[l] # out[l] /\ Last(out'[l]).res = "fail") => ppc'[l] = "fatal"
            /\ ppc[l] = "fatal" =>
                  /\ out'[l] = out[l]
                  /\ handed'[l] = handed[l]
                  /\ store'[l] = store[l]
                  /\ cur'[l] = cur[l]
                  /\ ppc'[l] = "fatal"
       /\ exited => (out' = out /\ exited')]_vars

C2_Witness ==
    /\ exited
    /\ \E l \in LoopIds :
         /\ ppc[l] = "fatal"
         /\ Last(out[l]).res = "fail"
         /\ \E m \in LoopIds \ {l} : out[m] # <<>>

\* No collector write has succeeded: the run is console-only, either because the
\* program has no collector (kubewatch.go) or because the collector is unreachable.
ConsoleOnlyRun ==
    \/ ~splunk
    \/ \A l \in LoopIds : \A i \in 1..Len(out[l]) :
          out[l][i].sink = "remote" => out[l][i].res # "ok"

\* The next delta of loop l would invoke a handler.
WouldNotify(l) == fifo[l] # <<>> /\ Notifies(Head(fifo[l]), store[l])

Printable(l) ==
    LET idx == SelectSeq([k \in 1..Len(handed[l]) |-> k],
                         LAMBDA k : ~Fails(handed[l][k]) /\ PastConsole(l, k))
    IN  [j \in 1..Len(idx) |-> handed[l][idx[j]].n]

ConsoleNumbers(l) ==
    LET c == Sink(l, "console") IN [j \in 1..Len(c) |-> c[j].n]

C4_OnlyAddsReportedAdded ==
    \A l \in LoopIds : \A k \in 1..Len(handed[l]) :
        handed[l][k].type # "Deleted" => handed[l][k].cause = "add"

\* C5: across watch errors and re-lists, an object reported as deleted is gone
\* from the cluster: one that is still present and unchanged is never reported.
C5_DeletedMeansGone ==
    \A l \in 1..Len(args) : \A k \in 1..Len(handed[l]) :
        (handed[l][k].type = "Deleted" /\ args[l] \in ClusterRes) =>
            handed[l][k].obj \notin cluster[args[l]]

\* No write of loop l is for a notification whose encoding failed.
FailedNeverWritten ==
    \A l \in LoopIds : \A k \in 1..Len(handed[l]) :
        Fails(handed[l][k]) =>
            \A i \in 1..Len(out[l]) : out[l][i].n # handed[l][k].n

\* C6: when the encoding of an event fails, the step that handles it writes
\* nothing to any sink, leaves the loop ready for its next event and the
\* process running, and leaves the other loop as it was; the event is never
\* written later either.
C6_EncodingErrorContained ==
    [][/\ \A l \in LoopIds :
            (Len(handed'[l]) = Len(handed[l]) + 1 /\ Fails(Last(handed'[l]))) =>
                /\ out' = out
                /\ ppc'[l] = "idle"
                /\ exited' = exited
                /\ \A m \in LoopIds \ {l} :
                      /\ ppc'[m] = ppc[m]
                      /\ cur'[m] = cur[m]
                      /\ fifo'[m] = fifo[m]
                      /\ store'[m] = store[m]
                      /\ handed'[m] = handed[m]
                      /\ rpc'[m] = rpc[m]
       /\ FailedNeverWritten']_vars

C6_Witness ==
    /\ flgFlatten
    /\ \E l \in LoopIds :
         /\ \E k1, k2 \in 1..Len(handed[l]) :
               /\ k1 < k2
               /\ handed[l][k1].enc \in {"unmarshalErr", "remarshalErr"}
               /\ Writes(l, "console", handed[l][k2].n) # {}
         /\ \E m \in LoopIds \ {l} : out[m] # <<>>

CaughtUp(l) == fifo[l] = <<>> /\ cur[l].n = 0

\* C8: while loop a is stalled inside a collector call, loop b goes on: it
\* catches up with every notification that has arrived on its stream, unless
\* its own collector call stalls or a failed collector write ends the process.
C8_LoopsDoNotBlockEachOther ==
    \A a \in LoopIds : \A b \in LoopIds \ {a} :
        [](  ppc[a] = "stalled"
          => <>(CaughtUp(b) \/ exited \/ ppc[b] = "stalled"))

C8_Witness ==
    \E a \in LoopIds : \E b \in LoopIds \ {a} :
        /\ ppc[a] = "stalled"
        /\ ~exited
        /\ \E k \in 1..Len(handed[b]) :
              /\ handed[b][k].tid > Last(out[a]).at
              /\ Writes(b, "console", handed[b][k].n) # {}
              /\ Writes(b, "remote", handed[b][k].n) # {}

\* C9: with a name on the command line that the registry does not hold, the
\* process ends at the parse: no loop is ever started and no record is written.
C9_UnknownResourceFailsFast ==
    (\E i \in 1..Len(args) : resourceObject(args[i]) = "") =>
        /\ \A l \in LoopIds : ~started[l] /\ out[l] = <<>> /\ handed[l] = <<>>
        /\ pcMain \in {"parse", "exit"}
        /\ pcMain = "exit" <=> exited

C9_Witness ==
    /\ exited
    /\ pcMain = "exit"
    /\ resourceObject(args[1]) # ""

\* C10: once startup is over there is exactly one running loop for each
\* requested resource, and no cluster transition is consumed by two loops.
C10_OneLoopPerResource ==
    pcMain = "select" =>
        /\ \A i \in 1..Len(args) :
              Cardinality({ l \in 1..Len(args) : started[l] /\ args[l] = args[i] }) = 1
        /\ \A l1, l2 \in LoopIds : \A k1 \in 1..Len(handed[l1]) : \A k2 \in 1..Len(handed[l2]) :
              (l1 # l2 /\ handed[l1][k1].tid # 0) =>
                  handed[l1][k1].tid # handed[l2][k2].tid

(* ---- flatten *)

\* flatten has returned (or faulted) on dat.
FlattenDone == fpc \notin {"off", "flatten"}

\* C11: flattening {"a": {"b": true, "c": [1,2]}} with root prefix "root"
\* yields exactly root_a_b = "true", root_a_c# = "2", root_a_c0 = "1" and
\* root_a_c1 = "2", these four keys and no others.
C11_ExampleRecord ==
    (FlattenDone /\ root = "root" /\ dat \in ExampleDocs) =>
        record.m = ( "root_a_b" :> GoString("true") @@ "root_a_c#" :> GoString("2")
                     @@ "root_a_c0" :> GoString("1") @@ "root_a_c1" :> GoString("2") )

\* The sequences of dat with the path each is reached at: dat itself, or a
\* field of dat.
SequencesAt ==
    IF dat.kind = "Slice" THEN { <<root, dat>> }
    ELSE IF dat.kind = "Map"
    THEN { << root \o "_" \o KeyString(dat.entries[i].k), dat.entries[i].v >> :
             i \in { j \in 1..Len(dat.entries) : dat.entries[j].v.kind = "Slice" } }
    ELSE {}

\* C12: for a sequence of length N reached at <path>, whatever its elements,
\* flatten emits <path># with the decimal string of N and the N child keys
\* <path>0 .. <path>(N-1), the index joined to the path without a separator.
C12_SequenceKeys ==
    (FlattenDone /\ ~record.panic /\ root # "") =>
        \A ps \in SequencesAt :
            LET path == ps[1]
                N == Len(ps[2].elems)
            IN  /\ (path \o "#") \in DOMAIN record.m
                /\ record.m[path \o "#"] = GoString(ToString(N))
                /\ \A i \in 0..(N - 1) : (path \o ToString(i)) \in DOMAIN record.m

\* C13: no two leaves or sequence lengths at distinct paths are written to the
\* same key: the flat record has as many keys as flatten made assignments,
\* whatever the field names are.
C13_KeysUnique ==
    (FlattenDone /\ FromPrintEvent(root, dat)) =>
        Cardinality(DOMAIN record.m) = record.sets

\* A document made of nested mappings: string field names, scalar leaves.
RECURSIVE NestedMapping(_)
NestedMapping(v) ==
    /\ v.kind = "Map"
    /\ \A i \in 1..Len(v.entries) :
          /\ v.entries[i].k.kind = "String"
          /\ \/ v.entries[i].v.kind \in {"Bool", "Float64", "String"}
             \/ NestedMapping(v.entries[i].v)

\* The field names from v down to each of its scalar leaves.
RECURSIVE LeafPaths(_)
LeafPaths(v) ==
    IF v.kind = "Map"
    THEN UNION { { <<v.entries[i].k.s>> \o q : q \in LeafPaths(v.entries[i].v) } :
                  i \in 1..Len(v.entries) }
    ELSE { <<>> }

\* The names of a non-empty chain, a single underscore between neighbours.
RECURSIVE Join(_)
Join(names) ==
    IF Len(names) = 1 THEN names[1]
    ELSE names[1] \o "_" \o Join(Tail(names))

\* The root prefix, when there is one, then the field names.
Chain(names) == IF root = "" THEN names ELSE <<root>> \o names

\* C14: in a document of nested mappings every scalar leaf is emitted under
\* the root prefix and the leaf's chain of field names joined by single
\* underscores, nothing before the first name of the chain and nothing after
\* the last; the record has these keys and no others.
C14_LeafKeyIsJoinedChain ==
    (FlattenDone /\ NestedMapping(dat)) =>
        /\ ~record.panic
        /\ DOMAIN record.m = { Join(Chain(q)) : q \in LeafPaths(dat) }

\* Two levels of mappings under the program's prefix.
C14_Witness ==
    /\ FlattenDone
    /\ root = "kubewatch"
    /\ NestedMapping(dat)
    /\ DOMAIN record.m = {"kubewatch_a_b", "kubewatch_a_0"}

\* The scalar leaves of a document of nested mappings, each with its field names.
RECURSIVE LeafValues(_)
LeafValues(v) ==
    IF v.kind = "Map"
    THEN UNION { { [names |-> <<v.entries[i].k.s>> \o q.names, leaf |-> q.leaf] :
                     q \in LeafValues(v.entries[i].v) } : i \in 1..Len(v.entries) }
    ELSE { [names |-> <<>>, leaf |-> v] }

\* No string leaf anywhere in v.
RECURSIVE NoStringLeaf(_)
NoStringLeaf(v) ==
    CASE v.kind = "Map" -> \A i \in 1..Len(v.entries) : NoStringLeaf(v.entries[i].v)
      [] v.kind = "Slice" -> \A i \in 1..Len(v.elems) : NoStringLeaf(v.elems[i])
      [] OTHER -> v.kind # "String"

\* Digits, with at most a decimal point among them.
Decimal(s) ==
    /\ Len(s) > 0
    /\ \A i \in 1..Len(s) :
          SubSeq(s, i, i) \in {"0", "1", "2", "3", "4", "5", "6", "7", "8", "9", "."}
    /\ Cardinality({ i \in 1..Len(s) : SubSeq(s, i, i) = "." }) <= 1

\* C15: every value of a flat record is a string, never a native boolean, a
\* mapping or a sequence; a boolean leaf is "true" or "false" according to its
\* value, numeric leaves and sequence lengths are decimal strings.
C15_ValuesAreStrings ==
    FlattenDone =>
        /\ \A k \in DOMAIN record.m : record.m[k].type = "string"
        /\ NoStringLeaf(dat) =>
              \A k \in DOMAIN record.m :
                  record.m[k].val \in {"true", "false"} \/ Decimal(record.m[k].val)
        /\ (NestedMapping(dat) /\ Cardinality(DOMAIN record.m) = record.sets) =>
              \A q \in LeafValues(dat) :
                  LET val == record.m[Join(Chain(q.names))].val
                  IN  /\ q.leaf.kind = "Bool" => val = (IF q.leaf.b THEN "true" ELSE "false")
                      /\ q.leaf.kind = "Float64" => Decimal(val)

\* A boolean, a number and two sequence lengths in one record.
C15_Witness ==
    /\ FlattenDone
    /\ root = "kubewatch"
    /\ { record.m[k].val : k \in DOMAIN record.m } = {"true", "1.000000", "1", "2"}

\* v without the mapping entries, at any depth, whose key is not a string.
RECURSIVE StringKeyed(_)
RECURSIVE StringKeyedEntries(_)
StringKeyedEntries(es) ==
    IF es = <<>> THEN <<>>
    ELSE IF es[1].k.kind = "String"
    THEN <<Entry(es[1].k, StringKeyed(es[1].v))>> \o StringKeyedEntries(Tail(es))
    ELSE StringKeyedEntries(Tail(es))

StringKeyed(v) ==
    CASE v.kind = "Map" -> Map(StringKeyedEntries(v.entries))
      [] v.kind = "Slice" -> Slice([i \in 1..Len(v.elems) |-> StringKeyed(v.elems[i])])
      [] OTHER -> v

\* C16: a mapping entry whose key is not a string is reported and skipped: no
\* key comes from that entry or its subtree, and the other entries are
\* flattened as usual.
C16_NonStringKeySkipped ==
    (FlattenDone /\ ~record.panic /\ dat # StringKeyed(dat)) =>
        /\ record.log # <<>>
        /\ record.m = flatten(EmptyRecord, root, StringKeyed(dat)).m

\* v with a marker leaf in the place of every null and every node of a kind
\* flatten has no case for.
RECURSIVE Marked(_)
Marked(v) ==
    CASE v.kind = "Map" ->
           Map([i \in 1..Len(v.entries) |-> Entry(v.entries[i].k, Marked(v.entries[i].v))])
      [] v.kind = "Slice" -> Slice([i \in 1..Len(v.elems) |-> Marked(v.elems[i])])
      [] v.kind \in {"Invalid", "Int"} -> Str("?")
      [] OTHER -> v

\* The record of the marked document: the anomalous nodes sit under the keys
\* whose value is the marker.
MarkedRecord == flatten(EmptyRecord, root, Marked(dat))

\* The flat record is on its way to the sinks or has been written to them.
Delivering ==
    /\ fpc \in {"marshal", "print", "send", "idle", "stalled", "fatal"}
    /\ fpc \in {"send", "idle", "stalled", "fatal"} =>
          /\ flatOut # <<>>
          /\ flatOut[1].sink = "console"
          /\ flatOut[1].body = FlatJSON(record)
    /\ fpc \in {"idle", "stalled", "fatal"} =>
          /\ Len(flatOut) = 2
          /\ flatOut[2].sink = "remote"
          /\ flatOut[2].body = FlatJSON(record)

\* C17: a null or unsupported node emits no key, every other leaf is emitted
\* under the key and with the value it has when a leaf stands in the node's
\* place, and the record is still delivered to the sinks.
C17_AnomalyOmitsOnlyItself ==
    (FlattenDone /\ dat # Marked(dat)) =>
        /\ ~record.panic
        /\ (~MarkedRecord.panic /\ Cardinality(DOMAIN MarkedRecord.m) = MarkedRecord.sets) =>
              /\ DOMAIN record.m =
                   { k \in DOMAIN MarkedRecord.m : MarkedRecord.m[k] # GoString("?") }
              /\ \A k \in DOMAIN record.m : record.m[k] = MarkedRecord.m[k]
        /\ FromPrintEvent(root, dat) => Delivering

\* A record with a null next to a leaf has gone to both sinks.
C17_Witness ==
    /\ fpc = "idle"
    /\ dat # Marked(dat)
    /\ FromPrintEvent(root, dat)
    /\ Cardinality(DOMAIN record.m) = 1
    /\ Len(dat.entries) = 2
    /\ Len(flatOut) = 2

(* ---- delivery *)

\* C18: the console write of an event comes first, and the collector write,
\* when there is one, follows it directly with the very document that was
\* just printed (nested, or flat under --flatten); no event is written to
\* the collector without having been printed.
C18_RemoteBodyIsConsoleLine ==
    \A l \in LoopIds :
        /\ \A i \in 1..Len(out[l]) :
              out[l][i].sink = "remote" =>
                 /\ i > 1
                 /\ out[l][i - 1].sink = "console"
                 /\ out[l][i - 1].n = out[l][i].n
                 /\ out[l][i - 1].body = out[l][i].body
        /\ ppc[l] \in {"send", "stalled", "fatal"} =>
              /\ out[l] # <<>>
              /\ \E i \in 1..Len(out[l]) :
                    /\ out[l][i].sink = "console"
                    /\ out[l][i].n = cur[l].n
                    /\ out[l][i].body = cur[l].body

\* A flat record has been printed and then written to the collector.
C18_Witness ==
    \E l \in LoopIds :
        /\ flgFlatten
        /\ Len(out[l]) >= 2
        /\ out[l][2].sink = "remote"
        /\ out[l][2].res = "ok"
        /\ out[l][2].body.form = "flat"

\* The place in handed[l] of the notification the i-th write of loop l belongs to.
HandedAt(l, i) == CHOOSE k \in 1..Len(handed[l]) : handed[l][k].n = out[l][i].n

\* C19: delivery is synchronous and unbuffered within a loop.  When a loop
\* has taken its next notification, the one before it has its console line
\* and, in the program with the collector, its one collector write, which
\* has returned without error; the writes of two notifications are never
\* interleaved; each collector write carries the record of one notification
\* and no notification is written to the collector twice; a collector write
\* that failed or has not returned is the last thing the loop wrote.
C19_SynchronousDelivery ==
    \A l \in LoopIds :
        /\ \A k \in 1..(Len(handed[l]) - 1) :
              LET h == handed[l][k]
              IN  ~Fails(h) =>
                     /\ Cardinality(Writes(l, "console", h.n)) = 1
                     /\ splunk =>
                           /\ Cardinality(Writes(l, "remote", h.n)) = 1
                           /\ \A i \in Writes(l, "remote", h.n) : out[l][i].res = "ok"
        /\ \A i, j \in 1..Len(out[l]) : i < j => HandedAt(l, i) <= HandedAt(l, j)
        /\ \A i \in 1..Len(out[l]) :
              out[l][i].sink = "remote" =>
                 /\ Cardinality(Writes(l, "remote", out[l][i].n)) = 1
                 /\ out[l][i].body = Rendering(handed[l][HandedAt(l, i)])
                 /\ out[l][i].res # "ok" => i = Len(out[l])

\* A loop has delivered two notifications to both sinks and taken a third.
C19_Witness ==
    \E l \in LoopIds :
        /\ splunk
        /\ Len(handed[l]) = 3
        /\ Len(out[l]) >= 4
        /\ \A k \in 1..3 : ~Fails(handed[l][k])

\* C20: only Added and Deleted notifications produce records.  When the
\* controller takes a delta, a deletion or an object the informer does not
\* know (OnAdd, OnDelete) is handed to printEvent, once; a delta for an
\* object the informer already knows (OnUpdate) is handed to nothing: no
\* console line and no collector write comes of it.
C20_OnlyAddAndDelete ==
    [][\A l \in LoopIds :
          (fifo[l] # <<>> /\ fifo'[l] = Tail(fifo[l])) =>
             LET d == Head(fifo[l])
             IN  IF d.type = "Deleted" \/ d.obj.name \notin { o.name : o \in store[l] }
                 THEN /\ Len(handed'[l]) = Len(handed[l]) + 1
                      /\ Last(handed'[l]).n = d.n
                      /\ \A k \in 1..Len(handed[l]) : handed[l][k].n # d.n
                 ELSE /\ handed'[l] = handed[l]
                      /\ out'[l] = out[l]
                      /\ ppc'[l] = "idle"
                      /\ cur'[l] = cur[l]]_vars

\* The informer's store holds a version of an object that was never handed
\* to printEvent: it came with an update notification.
C20_Witness ==
    \E l \in LoopIds : \E o \in store[l] :
        /\ \A k \in 1..Len(handed[l]) : handed[l][k].obj # o
        /\ Len(handed[l]) = 1
        /\ fifo[l] = <<>>

(* ---- registry *)

\* The names tried against the validation: the accepted list, the registry's
\* keys and one name that is in neither.
CandidateNames == resources \cup V1Resources \cup V1beta1Resources \cup {"nodes"}

\* C21: the names accepted at startup are the keys of the registry, every
\* entry's API version is "v1" or "v1beta1", and so watchResource has a
\* client and a decode prototype for every accepted name: no loop is ever
\* started on a name without them.
C21_RegistryMatchesValidation ==
    /\ { name \in CandidateNames : argResources(<<name>>) }
          = { name \in CandidateNames : resourceObject(name) # "" }
    /\ \A name \in CandidateNames :
          resourceObject(name) # "" => resourceObject(name) \in {"v1", "v1beta1"}
    /\ \A name \in CandidateNames :
          argResources(<<name>>) => Client(name) # "nil" /\ runtimeObject(name) # "nil"
    /\ \A l \in 1..Len(args) :
          started[l] => Client(args[l]) # "nil" /\ runtimeObject(args[l]) # "nil"

\* Loops run with the client of either API surface.
C21_Witness ==
    /\ pcMain = "select"
    /\ \E l, m \in 1..Len(args) :
          /\ Client(args[l]) = "core" /\ rpc[l] = "watch"
          /\ Client(args[m]) = "extensions" /\ rpc[m] = "watch"

(* ---- faults *)

\* C22: flatten returns without a runtime fault for every document and every
\* root prefix, the empty prefix with a bare scalar as root included: the
\* trimming of the prefix never slices a prefix of length zero.
C22_NoRuntimeFault == FlattenDone => ~record.panic /\ fpc # "panic"

====
